---- MODULE Spec2Model ----
(***************************************************************************)
(* Model of py_shells core/interpreter.py: the alias-aware command         *)
(* interpreter (AliasMix / AliasCmdInterpreter) built on cmd.Cmd.          *)
(*                                                                         *)
(* Strings are sequences of one-character strings, so that parsing,        *)
(* splitting, prefix tests and name ordering are computed as the code      *)
(* computes them.  Python's None is the value None below.  A handler is    *)
(* identified by the name of the command that defines it (the function     *)
(* do_<name>), which is what handler.__name__[3:] yields in the code.      *)
(***************************************************************************)
EXTENDS Integers, Sequences, FiniteSets, TLC

\* ---------------------------------------------------------------- strings
None == <<"None">>

s_empty == <<>>
s_alias == <<"a","l","i","a","s">>
s_help  == <<"h","e","l","p">>
s_EOF   == <<"E","O","F">>
s_shell == <<"s","h","e","l","l">>
s_e     == <<"e">>
s_a     == <<"a">>
s_q     == <<"q">>
s_qd    == <<"q","-">>
s_x     == <<"x">>
s_zz    == <<"z","z">>
s_bang  == <<"!","x">>
s_dash  == <<"-","x">>

\* cmd.Cmd.identchars = string.ascii_letters + string.digits + '_'
IDENTCHARS ==
  {"a","b","c","d","e","f","g","h","i","j","k","l","m","n","o","p","q","r",
   "s","t","u","v","w","x","y","z","A","B","C","D","E","F","G","H","I","J",
   "K","L","M","N","O","P","Q","R","S","T","U","V","W","X","Y","Z","0","1",
   "2","3","4","5","6","7","8","9","_"}

\* the characters of the model in code-point order (the order dir() sorts by)
CodePoints ==
  <<" ","!","-","?","0","1","2","3","4","5","6","7","8","9",
    "A","B","C","D","E","F","G","H","I","J","K","L","M","N","O","P","Q","R",
    "S","T","U","V","W","X","Y","Z","_",
    "a","b","c","d","e","f","g","h","i","j","k","l","m","n","o","p","q","r",
    "s","t","u","v","w","x","y","z">>

OrdOf ==
  [c \in {CodePoints[i] : i \in 1..Len(CodePoints)} |->
     CHOOSE i \in 1..Len(CodePoints) : CodePoints[i] = c]

Ord(c) == OrdOf[c]

\* str.startswith
StartsWith(s, p) == Len(p) <= Len(s) /\ SubSeq(s, 1, Len(p)) = p

\* the `in` operator on strings (substring test)
Contains(s, p) ==
  \E i \in 1..(Len(s) - Len(p) + 1) : SubSeq(s, i, i + Len(p) - 1) = p

RECURSIVE LStrip(_)
LStrip(s) == IF s # <<>> /\ Head(s) = " " THEN LStrip(Tail(s)) ELSE s

RECURSIVE RStrip(_)
RStrip(s) ==
  IF s # <<>> /\ s[Len(s)] = " " THEN RStrip(SubSeq(s, 1, Len(s) - 1)) ELSE s

Strip(s) == RStrip(LStrip(s))

\* str.split(' '): every single blank separates, empty fields are kept
RECURSIVE SplitFrom(_, _)
SplitFrom(s, cur) ==
  IF s = <<>> THEN <<cur>>
  ELSE IF Head(s) = " " THEN <<cur>> \o SplitFrom(Tail(s), <<>>)
  ELSE SplitFrom(Tail(s), Append(cur, Head(s)))

Split(s) == SplitFrom(s, <<>>)

\* string comparison as Python compares str (by code point, then length)
RECURSIVE StrLessAt(_, _, _)
StrLessAt(s, t, k) ==
  IF k > Len(t) THEN FALSE
  ELSE IF k > Len(s) THEN TRUE
  ELSE IF s[k] = t[k] THEN StrLessAt(s, t, k + 1)
  ELSE Ord(s[k]) < Ord(t[k])

StrLess(s, t) == StrLessAt(s, t, 1)

\* a set of strings as the sorted list dir() gives
RECURSIVE Insert(_, _)
Insert(x, seq) ==
  IF seq = <<>> THEN <<x>>
  ELSE IF StrLess(x, Head(seq)) THEN <<x>> \o seq
  ELSE <<Head(seq)>> \o Insert(x, Tail(seq))

RECURSIVE SortedSeq(_)
SortedSeq(S) ==
  IF S = {} THEN <<>>
  ELSE LET x == CHOOSE y \in S : TRUE
       IN  Insert(x, SortedSeq(S \ {x}))

Range(seq) == {seq[i] : i \in 1..Len(seq)}

Count(seq, x) == Cardinality({i \in 1..Len(seq) : seq[i] = x})

True == <<"True">>

\* ------------------------------------------------------------- the class
VARIABLES
  commands,            \* names X of the do_X methods of the interpreter class
  classAliases,        \* alias_X attributes defined in the class body: X -> handler
  SHOW_ALIAS,          \* AliasMix.SHOW_ALIAS
  frozen,              \* alias names X for which setattr(self, alias_X, ..) raises
  providers,           \* names X of the help_X methods of the interpreter class
  enable_alias,        \* constructor argument
  force_alias,         \* constructor argument
  inst,                \* alias_X attributes of the instance: X -> handler
  aliases,             \* self.aliases, the Alias Set
  completion_matches,  \* self.completion_matches, Unset before the first store
  cache,               \* CacheCompleteMix's self.__cache: key -> what the source returned
  completion_source,   \* self.completion_source: key -> the list it returns now
  last                 \* what the last call did and returned (observation only)

\* what the class and the constructor's arguments fix for the life of the
\* instance
fixed == <<commands, classAliases, SHOW_ALIAS, frozen, providers, enable_alias, force_alias>>

vars == <<fixed, inst, aliases, completion_matches, cache, completion_source, last>>

Unset == << <<"Unset">> >>

\* the docstring used for every documented handler
DocText == <<"d","o","c">>

\* do_help, do_EOF and do_alias of AliasCmdInterpreter
BaseCommands == {s_help, s_EOF, s_alias}

\* handler.__doc__
Doc(h) ==
  IF h = s_EOF THEN None
  ELSE IF h = s_e THEN s_empty
  ELSE DocText

\* what the handler returns to the command loop
Ret(h) == IF h = s_EOF THEN True ELSE None

EmptyMap == [n \in {} |-> None]

\* The interpreter classes: AliasCmdInterpreter as it is (SHOW_ALIAS False,
\* no alias in the class body), and a subclass of it that mixes in
\* ShellCmdMix (do_shell), adds a command do_e whose docstring is the empty
\* string, defines alias_a = do_help in its body and sets SHOW_ALIAS
Classes ==
  { [commands |-> BaseCommands, classAliases |-> EmptyMap, SHOW_ALIAS |-> FALSE,
     frozen |-> {}, providers |-> {}],
    [commands |-> BaseCommands \cup {s_shell, s_e},
     classAliases |-> [n \in {s_a} |-> s_help], SHOW_ALIAS |-> TRUE, frozen |-> {},
     providers |-> {}] }

AllCommands == UNION {c.commands : c \in Classes}

\* ------------------------------------------------------ attribute lookup
\* getattr(self, 'alias_' + name) succeeds: the instance, then the class
HasAlias(i, name) == name \in DOMAIN i \/ name \in DOMAIN classAliases

AliasAttr(i, name) ==
  IF name \in DOMAIN i THEN i[name]
  ELSE IF name \in DOMAIN classAliases THEN classAliases[name]
  ELSE None

\* AliasMix.get_aliases: the alias_ names of dir(self), prefix removed
get_aliases(i) == DOMAIN i \cup DOMAIN classAliases

\* setattr(self, 'alias_' + name, h) and delattr(self, 'alias_' + name)
SetAttr(i, name, h) == [n \in DOMAIN i \cup {name} |-> IF n = name THEN h ELSE i[n]]

DelAttr(i, name) == [n \in DOMAIN i \ {name} |-> i[n]]

\* cmd.Cmd.parseline (inherited): (cmd, arg, line)
RECURSIVE IdentLen(_)
IdentLen(s) ==
  IF s # <<>> /\ Head(s) \in IDENTCHARS THEN 1 + IdentLen(Tail(s)) ELSE 0

parse_words(l1, k) ==
  [cmd |-> SubSeq(l1, 1, k), arg |-> Strip(SubSeq(l1, k + 1, Len(l1))), line |-> l1]

parse_stripped(l0) ==
  IF l0 = <<>> THEN [cmd |-> None, arg |-> None, line |-> l0]
  ELSE IF Head(l0) = "?"
  THEN parse_words(s_help \o <<" ">> \o Tail(l0), IdentLen(s_help \o <<" ">> \o Tail(l0)))
  ELSE IF Head(l0) = "!"
  THEN IF s_shell \in commands
       THEN parse_words(s_shell \o <<" ">> \o Tail(l0), IdentLen(s_shell \o <<" ">> \o Tail(l0)))
       ELSE [cmd |-> None, arg |-> None, line |-> l0]
  ELSE parse_words(l0, IdentLen(l0))

parseline(raw) == parse_stripped(Strip(raw))

\* what a call leaves behind: the alias attributes, the Alias Set, and what
\* the caller sees (handler run, its argument, return value, exception, output)
Result(i, al, kind, name, handler, arg, ret, exc, out) ==
  [inst |-> i, aliases |-> al, kind |-> kind, name |-> name, target |-> None,
   handler |-> handler, arg |-> arg, ret |-> ret, exc |-> exc, out |-> out]

NoOut == [tag |-> "none", text |-> {}]

TypeError == <<"TypeError">>
AttributeError == <<"AttributeError">>

\* AliasCmdInterpreter.do_alias, called as the handler with one argument
AliasListing(i, al) == {<<n, AliasAttr(i, n)>> : n \in al}

\* a faulty lookup: an alias target is kept by its name, its handler not fetched
alias_target_by_name(i, args) ==
  IF Len(args) >= 2 /\ (args[2] \in commands \/ HasAlias(i, args[2])) THEN args[2]
  ELSE None

\* a faulty lookup: the target is looked up among the aliases first
alias_target_alias_first(i, args) ==
  IF Len(args) >= 2 /\ HasAlias(i, args[2]) THEN AliasAttr(i, args[2])
  ELSE IF Len(args) >= 2 /\ args[2] \in commands THEN args[2]
  ELSE None

alias_target(i, args) ==
  IF Len(args) >= 2 /\ args[2] \in commands THEN args[2]
  ELSE IF Len(args) >= 2 /\ HasAlias(i, args[2]) THEN AliasAttr(i, args[2])
  ELSE None

\* the exception a refused assignment raises
SetAttrError == <<"AttributeError">>

\* a faulty binding: the assignment is not guarded, its exception propagates
alias_set_unguarded(i, al, arg, A, T, cmd) ==
  IF cmd # None
  THEN IF A \in frozen
       THEN [Result(i, al, "raise", A, s_alias, arg, None, SetAttrError, NoOut)
               EXCEPT !.target = T]
       ELSE [Result(SetAttr(i, A, cmd), get_aliases(SetAttr(i, A, cmd)),
                    "create", A, s_alias, arg, None, None, NoOut) EXCEPT !.target = T]
  ELSE IF A \in DOMAIN i
  THEN Result(DelAttr(i, A), get_aliases(DelAttr(i, A)),
              "delete", A, s_alias, arg, None, None, NoOut)
  ELSE Result(i, al, "delete_absent", A, s_alias, arg, None, None, NoOut)

alias_set(i, al, arg, A, T, cmd) ==
  IF cmd # None
  THEN IF A \in frozen
       THEN [Result(i, al, "create_failed", A, s_alias, arg, None, None,
                    [tag |-> "failed", text |-> {SetAttrError}]) EXCEPT !.target = T]
       ELSE [Result(SetAttr(i, A, cmd), get_aliases(SetAttr(i, A, cmd)),
                    "create", A, s_alias, arg, None, None, NoOut) EXCEPT !.target = T]
  ELSE IF A \in DOMAIN i
  THEN Result(DelAttr(i, A), get_aliases(DelAttr(i, A)),
              "delete", A, s_alias, arg, None, None, NoOut)
  ELSE Result(i, al, "delete_absent", A, s_alias, arg, None, None, NoOut)

alias_args(i, al, arg, args) ==
  alias_set(i, al, arg, args[1], IF Len(args) >= 2 THEN args[2] ELSE None,
            alias_target(i, args))

\* a faulty listing: the Alias Set is recomputed before it is printed
do_alias_refresh(i, al, arg) ==
  IF arg # <<>> THEN alias_args(i, al, arg, Split(arg))
  ELSE Result(i, get_aliases(i), "list", None, s_alias, arg, None, None,
              [tag |-> "aliases", text |-> AliasListing(i, get_aliases(i))])

do_alias(i, al, arg) ==
  IF arg # <<>> THEN alias_args(i, al, arg, Split(arg))
  ELSE IF \E n \in al : ~HasAlias(i, n)
  THEN Result(i, al, "list", None, s_alias, arg, None, AttributeError, NoOut)
  ELSE Result(i, al, "list", None, s_alias, arg, None, None,
              [tag |-> "aliases", text |-> AliasListing(i, al)])

\* AliasMix.do_help
Truthy(doc) == doc # None /\ doc # s_empty

\* the three columns: commands with a help_ method or a doc string, help_
\* topics that name no command, commands with neither
HelpTopics ==
  {<<c, IF c \in providers \/ Truthy(Doc(c)) THEN <<"documented">>
        ELSE <<"undocumented">> >> : c \in commands}
  \cup {<<t, <<"misc">> >> : t \in providers \ commands}

\* a faulty lookup order: a command without a doc string falls through to
\* the alias of the same name
do_help_falls_through(i, al, arg) ==
  LET say(tag, text) == Result(i, al, "help", arg, s_help, arg, None, None,
                               [tag |-> tag, text |-> text])
  IN  IF arg # <<>>
      THEN IF arg \in providers THEN say("provider", {arg})
           ELSE IF arg \in commands /\ Truthy(Doc(arg)) THEN say("doc", {<<arg, Doc(arg)>>})
           ELSE IF HasAlias(i, arg) /\ Truthy(Doc(AliasAttr(i, arg)))
           THEN say("doc", {<<AliasAttr(i, arg), Doc(AliasAttr(i, arg))>>})
           ELSE say("nohelp", {arg})
      ELSE say("topics", HelpTopics)

do_help(i, al, arg) ==
  LET say(tag, text) == Result(i, al, "help", arg, s_help, arg, None, None,
                               [tag |-> tag, text |-> text])
  IN  IF arg # <<>>
      THEN IF arg \in providers THEN say("provider", {arg})
           ELSE IF arg \in commands
           THEN IF Truthy(Doc(arg)) THEN say("doc", {<<arg, Doc(arg)>>})
                ELSE say("nohelp", {arg})
           ELSE IF HasAlias(i, arg) /\ Truthy(Doc(AliasAttr(i, arg)))
           THEN say("doc", {<<AliasAttr(i, arg), Doc(AliasAttr(i, arg))>>})
           ELSE say("nohelp", {arg})
      ELSE say("topics", HelpTopics)

\* calling the handler h with one argument
Invoke(i, al, h, arg) ==
  IF h = s_alias THEN do_alias(i, al, arg)
  ELSE IF h = s_help THEN do_help(i, al, arg)
  ELSE IF h = s_shell
  THEN Result(i, al, "run", None, h, arg, Ret(h), None, [tag |-> "shell", text |-> {arg}])
  ELSE Result(i, al, "run", None, h, arg, Ret(h), None, NoOut)

\* the attribute names
DoPrefix == <<"d","o","_">>
ALIAS_PREFIX == <<"a","l","i","a","s","_">>

_wrap_alias(name) == ALIAS_PREFIX \o name

\* AliasMix.get_names: dir(self), sorted; only the do_ and alias_ names matter
get_names(i) ==
  SortedSeq({DoPrefix \o c : c \in commands} \cup {_wrap_alias(n) : n \in get_aliases(i)})

\* getattr(self, n) for a do_ or alias_ attribute name
GetAttr(i, n) ==
  IF StartsWith(n, DoPrefix) THEN SubSeq(n, Len(DoPrefix) + 1, Len(n))
  ELSE AliasAttr(i, SubSeq(n, Len(ALIAS_PREFIX) + 1, Len(n)))

\* AliasMix.default
default_call(i, al, p, func) ==
  IF func # <<>> THEN Invoke(i, al, func[1], p.arg)
  ELSE Result(i, al, "unknown", None, None, None, None, None,
              [tag |-> "unknown", text |-> {p.line}])

default_parsed(i, al, p) ==
  IF p.cmd = None
  THEN Result(i, al, "raise", None, None, None, None, TypeError, NoOut)
  ELSE LET hit(n) == n = DoPrefix \o p.cmd \/ n = _wrap_alias(p.cmd)
           names  == SelectSeq(get_names(i), hit)
       IN  default_call(i, al, p, [k \in 1..Len(names) |-> GetAttr(i, names[k])])

default(i, al, line) == default_parsed(i, al, parseline(line))

\* a faulty dispatch: every line goes to default, which scans the sorted names
onecmd_parsed_by_default(i, al, p) == default(i, al, p.line)

\* cmd.Cmd.onecmd (inherited), for a line that is not blank
onecmd_parsed(i, al, p) ==
  IF p.cmd = None THEN default(i, al, p.line)
  ELSE IF p.cmd = <<>> THEN default(i, al, p.line)
  ELSE IF p.cmd \in commands THEN Invoke(i, al, p.cmd, p.arg)
  ELSE default(i, al, p.line)

onecmd(i, al, line) == onecmd_parsed(i, al, parseline(line))

\* ------------------------------------------------------------- completion
StripPrefix(seq, prefix) ==
  [k \in 1..Len(seq) |-> SubSeq(seq[k], Len(prefix) + 1, Len(seq[k]))]

\* AliasMix.completedefault
completedefault(i, text) ==
  LET keep(n) == StartsWith(n, DoPrefix) /\ ~Contains(n, s_EOF)
  IN  StripPrefix(SelectSeq(get_names(i), keep), DoPrefix)

\* a faulty filter: the doc string is not looked at
completenames_any_doc(i, text, show) ==
  LET isCmd(n)   == StartsWith(n, DoPrefix \o text)
      isAlias(n) == StartsWith(n, ALIAS_PREFIX \o text)
      cmds       == StripPrefix(SelectSeq(get_names(i), isCmd), DoPrefix)
      als        == IF show THEN StripPrefix(SelectSeq(get_names(i), isAlias), ALIAS_PREFIX)
                    ELSE <<>>
  IN  cmds \o als

\* CacheCompleteMix.completedefault: the same, over cmd.Cmd.get_names, the
\* names of the class
Cache_completedefault(text) ==
  LET keep(n) == StartsWith(n, DoPrefix) /\ ~Contains(n, s_EOF)
  IN  StripPrefix(SelectSeq(SortedSeq({DoPrefix \o c : c \in commands}), keep), DoPrefix)

\* AliasMix.completenames
completenames(i, text, show) ==
  LET isCmd(n)   == StartsWith(n, DoPrefix \o text) /\ Doc(GetAttr(i, n)) # None
      isAlias(n) == StartsWith(n, ALIAS_PREFIX \o text) /\ Doc(GetAttr(i, n)) # None
      cmds       == StripPrefix(SelectSeq(get_names(i), isCmd), DoPrefix)
      als        == IF show THEN StripPrefix(SelectSeq(get_names(i), isAlias), ALIAS_PREFIX)
                    ELSE <<>>
  IN  cmds \o als

\* every ordering of a set: list(a_set) promises no order
Orderings(S) ==
  {f \in [1..Cardinality(S) -> S] : \A x \in S : \E k \in 1..Cardinality(S) : f[k] = x}

\* cmd.Cmd.complete_help (inherited): list(set(completenames) | help_ topics)
complete_help(i, text) ==
  Orderings(Range(completenames(i, text, SHOW_ALIAS))
            \cup {t \in providers : StartsWith(t, text)})

\* the complete_<cmd> methods the class has
Completers == {s_help}

\* AliasMix.complete, state == 0: the completer chosen for the stripped line
\* and the adjusted begin offset; "raise" is 'complete_' + None
select_parsed(i, p) ==
  IF p.cmd = <<>> THEN [use |-> "completedefault", of |-> None]
  ELSE IF p.cmd = None THEN [use |-> "raise", of |-> None]
  ELSE IF p.cmd \in Completers THEN [use |-> "complete_", of |-> p.cmd]
  ELSE IF HasAlias(i, p.cmd) /\ AliasAttr(i, p.cmd) \in Completers
  THEN [use |-> "complete_", of |-> AliasAttr(i, p.cmd)]
  ELSE [use |-> "completedefault", of |-> None]

select_completer(i, line, begidx) ==
  IF begidx > 0 THEN select_parsed(i, parseline(line))
  ELSE [use |-> "completenames", of |-> None]

\* the lists compfunc(text, line, begidx, endidx) can return
call_completer(i, sel, text) ==
  IF sel.use = "completenames" THEN {completenames(i, text, SHOW_ALIAS)}
  ELSE IF sel.use = "completedefault" THEN {completedefault(i, text)}
  ELSE complete_help(i, text)

\* self.completion_matches[state], None on IndexError
Nth(matches, state) == IF state + 1 <= Len(matches) THEN matches[state + 1] ELSE None

\* what is kept of a call for observation
Seen(op, r) ==
  [op |-> op, kind |-> r.kind, name |-> r.name, target |-> r.target,
   handler |-> r.handler, ret |-> r.ret, exc |-> r.exc, tag |-> r.out.tag]

SeenComplete(state, ret, exc, use) ==
  [op |-> "complete", kind |-> IF state = 0 THEN "state0" ELSE "replay", name |-> None,
   target |-> None, handler |-> None, ret |-> ret, exc |-> exc, tag |-> use]

\* ------------------------------------------------- cached source completion
\* the keys completion is cached under
CacheKeys == {s_help, s_q}

\* CacheCompleteMix.__init__: self.completion_source = lambda *args: []
DefaultSource == [k \in CacheKeys |-> <<>>]

\* a faulty filter: the line is not looked at
cache_filter_any_line(options, text, line) ==
  {i \in Range(options) : StartsWith(i, text)}

\* the candidates kept: {opt for opt in options} if startswith(text) and not in line
cache_filter(options, text, line) ==
  {i \in Range(options) : StartsWith(i, text) /\ ~Contains(line, i)}

\* self.__cache[key] = self.completion_source(key)
cache_store(c, src, key) ==
  [k \in DOMAIN c \cup {key} |-> IF k = key THEN src[key] ELSE c[k]]

\* a faulty cache: the source is asked on every query
_cache_completion_refetch(c, src, key, text, line) ==
  [cache |-> cache_store(c, src, key), called |-> TRUE,
   ret |-> Orderings(cache_filter(cache_store(c, src, key)[key], text, line))]

\* CacheCompleteMix._cache_completion(key, text, line, begidx, endidx): the
\* cache it leaves, whether the source was called, and the lists it can
\* return (a list made from a set promises no order)
_cache_completion(c, src, key, text, line) ==
  IF key \in DOMAIN c
  THEN [cache |-> c, called |-> FALSE, ret |-> Orderings(cache_filter(c[key], text, line))]
  ELSE [cache |-> cache_store(c, src, key), called |-> TRUE,
        ret |-> Orderings(cache_filter(cache_store(c, src, key)[key], text, line))]

\* what is kept of a cached completion query for observation
SeenCache(key, text, line, ret, called) ==
  [op |-> "cache", kind |-> IF called THEN "miss" ELSE "hit", name |-> key,
   target |-> None, handler |-> None, ret |-> ret, exc |-> None, tag |-> "cache",
   text |-> text, line |-> line]

\* ------------------------------------------------------------ construction
\* a faulty seeding: an existing binding of a is not looked for
default_alias_always(i, force) == SetAttr(i, s_a, s_alias)

\* AliasCmdInterpreter.__default_alias
default_alias(i, force) ==
  IF ~HasAlias(i, s_a) \/ force THEN SetAttr(i, s_a, s_alias) ELSE i

\* the state after the constructor of the class c has run
Construct(c) ==
  /\ commands = c.commands
  /\ classAliases = c.classAliases
  /\ SHOW_ALIAS = c.SHOW_ALIAS
  /\ frozen = c.frozen
  /\ providers = c.providers
  /\ enable_alias \in BOOLEAN
  /\ force_alias \in BOOLEAN
  /\ aliases = get_aliases(EmptyMap)
  /\ inst = IF enable_alias THEN default_alias(EmptyMap, force_alias) ELSE EmptyMap
  /\ completion_matches = Unset
  /\ cache = EmptyMap
  /\ completion_source = DefaultSource
  /\ last = Seen("init", Result(EmptyMap, {}, "init", None, None, None, None, None, NoOut))

Init == \E c \in Classes : Construct(c)

\* ------------------------------------------------------------- the inputs
MaxInst == 2

AliasNamePool == {s_q, s_a, s_help, s_qd}

\* targets named in `alias A T`: commands, aliases, and an unknown name
TargetPool == {s_EOF, s_alias, s_help, s_e, s_q, s_a, s_qd, s_zz}

\* the lines typed at the prompt: alias management (list, delete, create,
\* also through the default alias a), then invocations and unknown input
AliasLines ==
  {s_alias} \cup {s_alias \o <<" ">> \o A : A \in AliasNamePool}
  \cup {s_alias \o <<" ">> \o A \o <<" ">> \o T : A \in AliasNamePool, T \in TargetPool}
  \cup {s_a \o <<" ">> \o s_q \o <<" ">> \o s_EOF, s_a \o <<" ">> \o s_q, s_a}

WordPool == AllCommands \cup AliasNamePool \cup {s_zz, s_bang, s_dash, <<"?">>}

ArgPool == {s_empty, s_x}

JoinArg(w, a) == IF a = <<>> THEN w ELSE w \o <<" ">> \o a

Lines == AliasLines \cup {JoinArg(w, s_x) : w \in WordPool}

\* ------------------------------------------------------------- the actions
\* one turn of the command loop: onecmd(line)
Dispatch(line) ==
  \E r \in {onecmd(inst, aliases, line)} :
      /\ Strip(line) # <<>>
      /\ Cardinality(DOMAIN r.inst) <= MaxInst
      /\ inst' = r.inst
      /\ aliases' = r.aliases
      /\ last' = Seen("dispatch", r)
      /\ UNCHANGED <<fixed, completion_matches, cache, completion_source>>

\* the line buffer and cursor readline reports when it asks for completions
Typed(buf, begidx) ==
  [buf |-> buf, begidx |-> begidx, endidx |-> Len(buf),
   text |-> SubSeq(buf, begidx + 1, Len(buf))]

CompletionInputs ==
  { Typed(<<>>, 0),
    Typed(<<"a">>, 0),
    Typed(<<" "," ","h">>, 2),
    Typed(<<"h","e","l","p"," ","a">>, 5),
    Typed(<<"q"," ","a">>, 2),
    Typed(<<"a"," ","x">>, 2),
    Typed(<<" ","z","z"," ","y">>, 4),
    Typed(<<"-","x"," ","y">>, 3),
    Typed(<<"!","x"," ","y">>, 3) }

MaxState == 2

\* the lines typed between completions
CompletionLines ==
  { s_alias \o <<" ">> \o s_q \o <<" ">> \o s_help,
    s_alias \o <<" ">> \o s_q,
    s_alias \o <<" ">> \o s_help \o <<" ">> \o s_alias,
    s_alias \o <<" ">> \o s_a,
    s_zz }

\* complete(text, 0): compute, store, return the first candidate
CompleteFirst(in) ==
  LET line     == LStrip(in.buf)
      stripped == Len(in.buf) - Len(line)
      sel      == select_completer(inst, line, in.begidx - stripped)
  IN  /\ IF sel.use = "raise"
         THEN /\ completion_matches' = completion_matches
              /\ last' = SeenComplete(0, None, TypeError, sel.use)
         ELSE \E m \in call_completer(inst, sel, in.text) :
                /\ completion_matches' = m
                /\ last' = SeenComplete(0, Nth(m, 0), None, sel.use)
      /\ UNCHANGED <<fixed, inst, aliases, cache, completion_source>>

\* complete(text, state) with state > 0: index the stored list
CompleteNext(state) ==
  /\ state > 0
  /\ IF completion_matches = Unset
     THEN last' = SeenComplete(state, None, AttributeError, "replay")
     ELSE last' = SeenComplete(state, Nth(completion_matches, state), None, "replay")
  /\ UNCHANGED <<fixed, inst, aliases, completion_matches, cache, completion_source>>

Next ==
  \/ \E line \in Lines : Dispatch(line)

Spec == Init /\ [][Next]_vars

\* the line-editing layer asking for completions, between commands
NextComplete ==
  \/ \E line \in CompletionLines : Dispatch(line)
  \/ \E in \in CompletionInputs : CompleteFirst(in)
  \/ \E state \in 1..MaxState : CompleteNext(state)

SpecComplete == Init /\ [][NextComplete]_vars

\* a completer asking the cached source: _cache_completion(key, text, line, ..)
CacheQuery(key, text, line) ==
  \E r \in {_cache_completion(cache, completion_source, key, text, line)} :
    \E m \in r.ret :
      /\ cache' = r.cache
      /\ last' = SeenCache(key, text, line, m, r.called)
      /\ UNCHANGED <<fixed, inst, aliases, completion_matches, completion_source>>

\* the candidate lists a source may return
s_ab == <<"a","b">>

Sources ==
  { [k \in CacheKeys |-> IF k = s_help THEN <<s_alias, s_a, s_help>> ELSE <<s_ab, s_a, s_ab>>],
    [k \in CacheKeys |-> IF k = s_help THEN <<s_a, s_e>> ELSE <<>>] }

\* the owner of the interpreter plugs in a source: self.completion_source = f
SetSource(f) ==
  /\ completion_source # f
  /\ completion_source' = f
  /\ last' = [SeenCache(None, None, None, None, FALSE) EXCEPT !.op = "source", !.kind = "set"]
  /\ UNCHANGED <<fixed, inst, aliases, completion_matches, cache>>

\* the texts and lines the cached source is queried with
QueryTexts == {s_empty, s_a}

QueryLines == {s_help \o <<" ">> \o s_a, s_q \o <<" ">>}

\* the lines typed between cached completions
CacheLines ==
  { s_alias,
    s_alias \o <<" ">> \o s_q \o <<" ">> \o s_help,
    s_alias \o <<" ">> \o s_q }

\* the completions asked for between them: by name, by complete_help, and
\* by completedefault or, once q is an alias of help, by complete_help
CacheInputs ==
  { Typed(<<"a">>, 0),
    Typed(<<"h","e","l","p"," ","a">>, 5),
    Typed(<<"q"," ","a">>, 2) }

NextCache ==
  \/ \E line \in CacheLines : Dispatch(line)
  \/ \E in \in CacheInputs : CompleteFirst(in)
  \/ \E state \in 1..MaxState : CompleteNext(state)
  \/ \E key \in CacheKeys : \E text \in QueryTexts : \E line \in QueryLines :
        CacheQuery(key, text, line)
  \/ \E f \in Sources : SetSource(f)

\* the classes with CacheCompleteMix mixed in after them (their own methods
\* win over its completenames and completedefault)
SpecCache == Init /\ [][NextCache]_vars

\* the same classes with a __setattr__ that refuses to bind the alias q
FrozenClasses == {[c EXCEPT !.frozen = {s_q}] : c \in Classes}

InitFrozen == \E c \in FrozenClasses : Construct(c)

SpecFrozen == InitFrozen /\ [][Next]_vars

\* the same classes with one more command, do_xEOF
s_xEOF == <<"x","E","O","F">>

NamedClasses == {[c EXCEPT !.commands = @ \cup {s_xEOF}] : c \in Classes}

InitNamed == \E c \in NamedClasses : Construct(c)

SpecNamed == InitNamed /\ [][NextComplete]_vars

\* the same classes, without and with help_q and help_alias methods
HelpClasses ==
  {[c EXCEPT !.providers = P] : c \in Classes, P \in {{}, {s_q, s_alias}}}

InitHelp == \E c \in HelpClasses : Construct(c)

\* the topics help is asked about
HelpArgs == {s_EOF, s_e, s_help, s_alias, s_q, s_a, s_zz}

\* the lines typed: aliases made and cleared, also under the name of the
\* command EOF, and help asked for each topic
HelpLines ==
  { s_alias \o <<" ">> \o s_EOF \o <<" ">> \o s_help,
    s_alias \o <<" ">> \o s_q \o <<" ">> \o s_help,
    s_alias \o <<" ">> \o s_q \o <<" ">> \o s_EOF,
    s_alias \o <<" ">> \o s_q,
    s_help }
  \cup {s_help \o <<" ">> \o t : t \in HelpArgs}

NextHelp ==
  \/ \E line \in HelpLines : Dispatch(line)

SpecHelp == InitHelp /\ [][NextHelp]_vars

\* ================================================================ claims
IsIdent(name) == name # <<>> /\ \A k \in 1..Len(name) : name[k] \in IDENTCHARS

\* T names a command or a bound alias
Exists(i, T) == T \in commands \/ HasAlias(i, T)

CreateLine(A, T) == s_alias \o <<" ">> \o A \o <<" ">> \o T

DeleteLine(A) == s_alias \o <<" ">> \o A

\* dispatching `A S` and `T S` in the state (i, al) run the same handler on
\* the same argument and return, write and leave behind the same
SameEffectIn(i, al, A, T) ==
  \A S \in ArgPool : onecmd(i, al, JoinArg(A, S)) = onecmd(i, al, JoinArg(T, S))

SameEffect(A, T) == SameEffectIn(inst, aliases, A, T)

\* the handler a dispatched name runs: the command's, else the alias's
Resolve(i, N) == IF N \in commands THEN N ELSE AliasAttr(i, N)

\* the last command was `alias A T` and bound A
BoundBy(A, T) ==
  last.op = "dispatch" /\ last.kind = "create" /\ last.name = A /\ last.target = T

\* the step leaves the alias attribute of the name as it was
Untouched(N) == AliasAttr(inst', N) = AliasAttr(inst, N)

\* C1 as claimed: an alias A (not a command) bound by `alias A T` dispatches
\* like T, for every argument string, and keeps doing so over every step that
\* does not touch A.
C1_Original ==
  [][\A A \in AliasNamePool \ commands : \A T \in TargetPool :
       /\ BoundBy(A, T)' => SameEffectIn(inst', aliases', A, T)
       /\ (BoundBy(A, T) /\ Untouched(A)) => SameEffectIn(inst', aliases', A, T)]_vars

\* C1 amended: an alias A named by identifier characters (not a command)
\* bound by `alias A T`, T a command or an alias named by identifier
\* characters, runs the handler T resolves to; and in every state in which A
\* is bound to the handler T resolves to (as it is until A or the alias T is
\* touched), `A S` and `T S` have the same effect for every argument string S.
C1_AliasDispatchesLikeTarget ==
  \A A \in AliasNamePool \ commands : \A T \in TargetPool :
    (IsIdent(A) /\ IsIdent(T)) =>
      /\ BoundBy(A, T) => (A \in DOMAIN inst /\ inst[A] = Resolve(inst, T))
      /\ (A \in DOMAIN inst /\ Exists(inst, T) /\ inst[A] = Resolve(inst, T))
           => SameEffect(A, T)

\* q has just been bound by `alias q a` to what the alias a is bound to
C1_Witness ==
  /\ BoundBy(s_q, s_a)
  /\ s_q \notin commands /\ s_q \in DOMAIN inst
  /\ HasAlias(inst, s_a) /\ inst[s_q] = AliasAttr(inst, s_a)
  /\ SameEffect(s_q, s_a)

\* C2 as claimed: after construction and after every alias command, the
\* Alias Set is exactly the set of alias names with a live binding.
C2_AliasSetIsLive == aliases = get_aliases(inst)

\* C3 as claimed: `alias A T` with T neither a command nor an alias (or no T)
\* removes any binding of A without error, takes A out of the Alias Set,
\* changes no other alias, and A (not a command) is then an unknown command.
C3_DeleteRemoves ==
  [][(last'.op = "dispatch" /\ last'.kind \in {"delete", "delete_absent"}) =>
       /\ last'.exc = None
       /\ ~HasAlias(inst', last'.name)
       /\ last'.name \notin aliases'
       /\ \A N \in AliasNamePool \ {last'.name} : Untouched(N)
       /\ last'.name \notin commands
            => onecmd(inst', aliases', last'.name).kind = "unknown"]_vars

\* C4 as claimed: deleting an alias that does not exist changes nothing and
\* reports no error; deleting an existing alias removes it on the first call
\* and a second deletion is a no-op.
C4_DeleteIdempotent ==
  \A A \in AliasNamePool :
    LET r1 == onecmd(inst, aliases, DeleteLine(A))
        r2 == onecmd(r1.inst, r1.aliases, DeleteLine(A))
    IN  /\ r1.exc = None /\ r2.exc = None
        /\ ~HasAlias(inst, A) => (r1.inst = inst /\ r1.aliases = aliases)
        /\ HasAlias(inst, A) => ~HasAlias(r1.inst, A)
        /\ r2.inst = r1.inst /\ r2.aliases = r1.aliases

\* the candidate lists a state-0 call may store for the typed input
Candidates(i, in) ==
  LET sel == select_completer(i, LStrip(in.buf),
                              in.begidx - (Len(in.buf) - Len(LStrip(in.buf))))
  IN  IF sel.use = "raise" THEN {} ELSE call_completer(i, sel, in.text)

\* C5 as claimed: a call with state 0 computes and stores the candidate list
\* of the current buffer; a call with state k > 0 returns the k-th element of
\* the list the most recent state-0 call stored, or None past its end, and
\* never modifies the list.
C5_ReplayFromStored ==
  [][/\ \A in \in CompletionInputs :
          CompleteFirst(in) =>
            /\ completion_matches' \in Candidates(inst, in)
            /\ last'.exc = None /\ last'.ret = Nth(completion_matches', 0)
     /\ \A state \in 1..MaxState :
          (CompleteNext(state) /\ completion_matches # Unset) =>
            /\ last'.exc = None /\ last'.ret = Nth(completion_matches, state)
            /\ completion_matches' = completion_matches]_vars

\* C6 as claimed: complete() never raises, whatever the buffer, the offsets,
\* the state index and the alias table.
C6_CompleteNeverRaises == last.op = "complete" => last.exc = None

\* the command word of the line names neither a command nor an alias
Unresolved(i, line) ==
  \/ parseline(line).cmd = None
  \/ parseline(line).cmd \notin commands /\ ~HasAlias(i, parseline(line).cmd)

\* C7 as claimed: a line whose command word is neither a command nor an
\* alias, or that has no command word, is reported as unrecognized, does not
\* stop the loop, raises nothing and leaves the alias table as it is.
C7_UnknownIsReported ==
  \A line \in Lines :
    Unresolved(inst, line) =>
      LET r == onecmd(inst, aliases, line)
      IN  /\ r.exc = None /\ r.kind = "unknown" /\ r.out.tag = "unknown"
          /\ r.ret # True
          /\ r.inst = inst /\ r.aliases = aliases

\* C8: dispatching a command name runs the command's own handler, whatever
\* aliases exist, also an alias of the same name bound to another command.
C8_CommandShadowsAlias ==
  \A C \in commands : \A S \in ArgPool :
    LET r == onecmd(inst, aliases, JoinArg(C, S))
    IN  r.handler = C /\ r.ret = Ret(C) /\ r.exc = None

\* `help x` ran do_help while an alias named help is bound to another command
C8_Witness ==
  /\ s_help \in DOMAIN inst /\ inst[s_help] # s_help
  /\ last.op = "dispatch" /\ last.kind = "help" /\ last.handler = s_help

\* the prefixes name completion is asked for
TextPool == {s_empty, s_a, <<"h">>, <<"h","e">>, s_q, s_e, s_EOF}

CommandsWithDoc(text, nonEmpty) ==
  {c \in commands : /\ StartsWith(c, text)
                    /\ IF nonEmpty THEN Truthy(Doc(c)) ELSE Doc(c) # None}

AliasesWithDoc(i, text) ==
  {n \in get_aliases(i) : StartsWith(n, text) /\ Doc(AliasAttr(i, n)) # None}

\* C9 as claimed: completenames(prefix) returns exactly the commands that
\* start with prefix and have a non-empty doc string, plus, with SHOW_ALIAS,
\* the aliases that start with prefix and whose target has a doc string.
C9_Original ==
  \A text \in TextPool : \A show \in BOOLEAN :
    Range(completenames(inst, text, show)) =
      CommandsWithDoc(text, TRUE) \cup (IF show THEN AliasesWithDoc(inst, text) ELSE {})

\* C9 amended: completenames(prefix) returns exactly the commands that start
\* with prefix and have a doc string (one that is not None, the empty string
\* included), plus, with SHOW_ALIAS, the aliases that start with prefix and
\* whose target has a doc string; without SHOW_ALIAS no alias is returned.
C9_CompleteNames ==
  \A text \in TextPool : \A show \in BOOLEAN :
    Range(completenames(inst, text, show)) =
      CommandsWithDoc(text, FALSE) \cup (IF show THEN AliasesWithDoc(inst, text) ELSE {})

\* name completion of the empty prefix has just returned the commands with a
\* doc string, e with its empty one among them and EOF with none left out,
\* then the alias a
C9_Witness ==
  /\ last.op = "complete" /\ last.kind = "state0" /\ last.tag = "completenames"
  /\ SHOW_ALIAS /\ Doc(s_e) = s_empty /\ Doc(s_EOF) = None
  /\ completion_matches = <<s_alias, s_e, s_help, s_shell, s_a>> /\ last.ret = s_alias

\* C10 as claimed: every command with a non-empty doc string occurs exactly
\* once in completenames(""), in every alias state, with and without SHOW_ALIAS.
C10_ExactlyOnce ==
  \A show \in BOOLEAN : \A C \in commands :
    Truthy(Doc(C)) => Count(completenames(inst, s_empty, show), C) = 1

\* C11: every candidate a cached source query returns is in the cached set of
\* the queried key, starts with the queried text and does not occur in the
\* queried line, and every member of the cached set that does both is returned.
C11_CachedSubset ==
  last.op = "cache" =>
    /\ last.name \in DOMAIN cache
    /\ \A c \in Range(last.ret) :
         /\ c \in Range(cache[last.name])
         /\ StartsWith(c, last.text)
         /\ ~Contains(last.line, c)
    /\ \A c \in Range(cache[last.name]) :
         (StartsWith(c, last.text) /\ ~Contains(last.line, c)) => c \in Range(last.ret)

\* the query (help, "a", "help a") has just populated the key help and
\* returned alias alone: a occurs in the line, help does not start with a
C11_Witness ==
  /\ last.op = "cache" /\ last.kind = "miss" /\ last.name = s_help
  /\ last.text = s_a /\ last.line = s_help \o <<" ">> \o s_a
  /\ cache[s_help] = <<s_alias, s_a, s_help>>
  /\ last.ret = <<s_alias>>

\* C15: the source is called for a key only by a query that finds the key
\* absent from the cache (so at most once per key, since the query stores
\* what the source returned); a populated key keeps its candidates over every
\* completion, dispatch and alias operation, whatever the source returns now.
C15_PopulateOnce ==
  [][/\ \A k \in DOMAIN cache : k \in DOMAIN cache' /\ cache'[k] = cache[k]
     /\ (last'.op = "cache" /\ last'.kind = "miss") =>
          /\ last'.name \notin DOMAIN cache
          /\ last'.name \in DOMAIN cache'
          /\ cache'[last'.name] = completion_source[last'.name]
     /\ \A k \in DOMAIN cache' \ DOMAIN cache :
          last'.op = "cache" /\ last'.kind = "miss" /\ last'.name = k]_vars

\* a query of the key help was answered from the cache while the source
\* would now return other candidates for it
C15_Witness ==
  /\ last.op = "cache" /\ last.kind = "hit" /\ last.name = s_help
  /\ s_help \in DOMAIN cache
  /\ completion_source[s_help] # cache[s_help]
  /\ Range(last.ret) \subseteq Range(cache[s_help])
  /\ last.ret # <<>>

\* C12 as claimed: in every reachable state the listing `alias` produces has
\* exactly one `name: target` line per alias bound at that moment and no
\* other line, target being the name of the command whose handler the alias
\* is bound to.
C12_ListingRoundTrip ==
  LET r == onecmd(inst, aliases, s_alias)
  IN  /\ r.exc = None
      /\ r.out.tag = "aliases"
      /\ r.out.text = {<<n, AliasAttr(inst, n)>> : n \in get_aliases(inst)}

\* C13: right after construction, without enable_alias the instance has no
\* alias of its own; with enable_alias and without force_alias, a is bound to
\* the alias command only if a had no binding, and a binding that existed is
\* as it was; with force_alias a is bound to the alias command regardless.
\* And in every reachable state the seeding step binds a (and nothing else)
\* when a is unbound or force is set, changes nothing otherwise, and a second
\* application changes nothing.
C13_DefaultAliasSeeding ==
  /\ last.op = "init" =>
       /\ ~enable_alias => inst = EmptyMap
       /\ (enable_alias /\ ~force_alias /\ s_a \in DOMAIN classAliases) =>
            inst = EmptyMap /\ AliasAttr(inst, s_a) = classAliases[s_a]
       /\ (enable_alias /\ (force_alias \/ s_a \notin DOMAIN classAliases)) =>
            DOMAIN inst = {s_a} /\ inst[s_a] = s_alias
  /\ \A force \in BOOLEAN :
       LET once == default_alias(inst, force)
       IN  /\ (HasAlias(inst, s_a) /\ ~force) => once = inst
           /\ (~HasAlias(inst, s_a) \/ force) =>
                /\ DOMAIN once = DOMAIN inst \cup {s_a}
                /\ once[s_a] = s_alias
                /\ \A n \in DOMAIN inst \ {s_a} : once[n] = inst[n]
           /\ default_alias(once, force) = once

\* a class that defines the alias a in its body was constructed with
\* enable_alias and without force_alias: a is still bound as the class binds it
C13_Witness ==
  /\ last.op = "init" /\ enable_alias /\ ~force_alias
  /\ s_a \in DOMAIN classAliases /\ s_a \notin DOMAIN inst
  /\ AliasAttr(inst, s_a) = s_help

\* the completer the selection rule names for a typed input: by the adjusted
\* begin offset, then the command word's completer, then the completer of the
\* alias's target, then the default completer
Selected(i, in) ==
  LET line == LStrip(in.buf)
      adj  == in.begidx - (Len(in.buf) - Len(line))
      word == parseline(line).cmd
  IN  IF adj <= 0 THEN "completenames"
      ELSE IF word \in Completers THEN "complete_"
      ELSE IF HasAlias(i, word) /\ AliasAttr(i, word) \in Completers THEN "complete_"
      ELSE "completedefault"

\* C14 as claimed: every state-0 call of complete() uses the completer the
\* selection rule names, and stores what that completer returns for the text.
C14_CompleterSelection ==
  [][\A in \in CompletionInputs :
       CompleteFirst(in) =>
         /\ last'.tag = Selected(inst, in)
         /\ last'.exc = None
         /\ completion_matches' \in
              (IF Selected(inst, in) = "completenames"
               THEN {completenames(inst, in.text, SHOW_ALIAS)}
               ELSE IF Selected(inst, in) = "completedefault"
               THEN {completedefault(inst, in.text)}
               ELSE complete_help(inst, in.text))]_vars

\* the step is an alias command that names N as the alias to set or clear
Names(N) ==
  last'.op = "dispatch" /\ last'.name = N
    /\ last'.kind \in {"create", "delete", "delete_absent"}

C17_FailedBindingChangesNothing ==
  [][(/\ last'.op = "dispatch" /\ last'.handler = s_alias
      /\ last'.name \in frozen
      /\ last'.target # None /\ Exists(inst, last'.target)) =>
       /\ last'.tag = "failed"
       /\ last'.exc = None
       /\ last'.ret # True
       /\ inst' = inst
       /\ aliases' = aliases]_vars

\* `alias q a` has just failed to bind q while the alias a is bound and the
\* Alias Set is still the stale one of construction
C17_Witness ==
  /\ last.op = "dispatch" /\ last.kind = "create_failed" /\ last.tag = "failed"
  /\ last.name = s_q /\ last.target = s_a /\ s_q \in frozen
  /\ HasAlias(inst, s_a) /\ ~HasAlias(inst, s_q)
  /\ aliases # get_aliases(inst)

\* C18: no call of complete() (and so of completenames, completedefault or a
\* complete_ method), no cached source query and no listing by `alias`
\* changes the commands, an alias binding or the Alias Set.
C18_CompletionReadOnly ==
  [][(\/ last'.op \in {"complete", "cache"}
      \/ last'.op = "dispatch" /\ last'.kind = "list") =>
       /\ commands' = commands
       /\ classAliases' = classAliases
       /\ inst' = inst
       /\ aliases' = aliases]_vars

\* `alias` has just listed the aliases of an interpreter whose Alias Set does
\* not name the bound alias a, and the set is still that
C18_Witness ==
  /\ last.op = "dispatch" /\ last.kind = "list" /\ last.tag = "aliases"
  /\ s_a \in DOMAIN inst /\ s_a \notin aliases
  /\ DOMAIN cache # {} /\ completion_matches # Unset

\* C19 as claimed: whatever the text, the default completer (AliasMix's and
\* CacheCompleteMix's) returns exactly the names of the commands other than
\* EOF: every other command, never EOF, never an alias name.
C19_DefaultCompleter ==
  \A text \in TextPool :
    /\ Range(completedefault(inst, text)) = commands \ {s_EOF}
    /\ Range(Cache_completedefault(text)) = commands \ {s_EOF}

\* what help writes for a topic under the resolution order: the provider's
\* text, else the command's doc string, else the doc string of the alias's
\* target (consulted for every topic, or only for one that names no
\* command), else the no-help message
HelpOutput(i, arg, onlyIfNoCommand) ==
  IF arg \in providers THEN [tag |-> "provider", text |-> {arg}]
  ELSE IF arg \in commands /\ Truthy(Doc(arg))
  THEN [tag |-> "doc", text |-> {<<arg, Doc(arg)>>}]
  ELSE IF /\ ~onlyIfNoCommand \/ arg \notin commands
          /\ HasAlias(i, arg) /\ Truthy(Doc(AliasAttr(i, arg)))
  THEN [tag |-> "doc", text |-> {<<AliasAttr(i, arg), Doc(AliasAttr(i, arg))>>}]
  ELSE [tag |-> "nohelp", text |-> {arg}]

\* help about the topic does what the order says, raises nothing, does not
\* stop the loop and changes no alias
HelpResolves(arg, onlyIfNoCommand) ==
  LET r == onecmd(inst, aliases, s_help \o <<" ">> \o arg)
  IN  /\ r.handler = s_help
      /\ r.out = HelpOutput(inst, arg, onlyIfNoCommand)
      /\ r.exc = None /\ r.ret # True
      /\ r.inst = inst /\ r.aliases = aliases

====
